---- MODULE Spec2Model ----
(***************************************************************************)
(* Authentication and session lifecycle of the school-management backend:  *)
(* the refresh-token store (lib/refresh-token), the auth routes that use   *)
(* it (login, refresh, logout), user deactivation / reactivation, and the  *)
(* in-memory rate limiter (middleware/security.ts).                        *)
(*                                                                         *)
(* Every database statement is one atomic step; a handler is a sequence    *)
(* of such steps (one per `await db...`), so two requests interleave       *)
(* exactly where the code awaits.  Time is a discrete clock `now`.         *)
(* Record fields that no statement's WHERE clause or result reads          *)
(* (deviceInfo, lastUsedAt, updatedAt) are not represented.                *)
(***************************************************************************)
EXTENDS Integers, Sequences, FiniteSets, TLC

\* ---------------------------------------------------------------- bounds
MaxReqs == 2         \* requests started in one behaviour, handled concurrently
MaxSeqReqs == 4      \* requests started in one behaviour, handled one at a time
MaxAppReqs == 4      \* requests taken through the middleware chain in one behaviour
MaxRlTime == 3       \* last value of the rate limiter's clock
MaxAttempts == 7     \* requests reaching the rate limiter in one behaviour
WindowTicks == 2     \* windowMs in ticks of the rate limiter's clock
MaxTicks == 2        \* clock ticks in one behaviour
DaysPerTick == 30    \* days the clock advances per tick
MaxIssued == 1       \* access tokens signed in one behaviour
MaxAzReqs == 2       \* requests to protected routes in one behaviour
MaxSessionReqs == 2   \* login, refresh and logout requests of one client's session
MaxSessionGets == 3   \* protected requests of one client's session
MaxDays == 1          \* days that pass during one client's session
MaxCalls == 3         \* calls of the refresh token store in one behaviour
MaxAdminOps == 1     \* calls of the users routes while protected routes are exercised

\* ------------------------------------------------------ program constants
MAX_TOKENS_PER_USER == 5
EXPIRY_DAYS == 30
ACCESS_TOKEN_DAYS == 1  \* expiresIn: '24h' of the access token
HoursPerDay == 24
REFRESH_EXPIRES_IN_HOURS == 4   \* expiresIn: 4 * 60 * 60 in the response of POST /refresh
LOGIN_MAX == 5       \* max of the production login limiter
API_MAX == 100       \* max of the production limiter on /api/*
MIN_LENGTH == 12     \* passwordSchema .min
MAX_LENGTH == 128    \* passwordSchema .max
FAIR_SCORE == 50     \* validatePassword requires at least this strength score
FLUSH_ABOVE == 100   \* AuditLogger.log flushes a buffer longer than this

Users == {"u1", "u2"}
Admin == "u2"        \* the administrator who calls the users routes
Procs == {"p1", "p2"}
NoUser == "none"
Keys == {"ip1", "ip2"}   \* client keys (CF_CONNECTING_IP / x-forwarded-for)

\* ------------------------------------------------------------- variables
VARIABLES
  users,          \* users table: userId -> [isActive]
  refreshTokens,  \* refresh_tokens table, in insertion order
  now,            \* the clock (new Date() / defaultNow())
  req,            \* per request slot: position in its handler and its locals
  left,           \* number of requests that may still start
  rateLimitStore, \* the limiter's Map: key -> [count, resetTime]
  rlNow,          \* Date.now() as the limiter reads it
  rlLeft,         \* number of requests that may still reach the limiter
  rlLog,          \* history: per key, every attempt [at, reset, admitted]
  deactMark,      \* history: per user, the newest token id that existed when the
                  \* user was last deactivated (0 if never deactivated)
  http,           \* per request slot: a request on its way through the middleware chain
  logBuffer,      \* AuditLogger.logBuffer: the audit entries the logger holds
  auditTrail,     \* history: every entry AuditLogger.log was called with, in order
  auditFault,     \* AuditLogger.log rejects while this holds
  profile,        \* users table, columns role and schoolId: userId -> [role, schoolId]
  accessTokens,   \* the access tokens signed so far: their payloads, in order
  az,             \* the request to a protected route that is under way
  azLeft,         \* number of such requests and of tokens that may still come
  seen,           \* history: the tokens a client was issued and the answers it got
  unswept,        \* the refresh_tokens table of a system that never runs the sweep
  pw              \* the password given to validatePassword, and what it returned

tokVars == <<users, refreshTokens, now, req, left, deactMark>>
rlVars == <<rateLimitStore, rlNow, rlLeft, rlLog>>
audVars == <<logBuffer, auditTrail, auditFault>>
azVars == <<profile, accessTokens, az, azLeft, seen, unswept, pw>>
appVars == <<http, audVars, azVars>>
nonTokVars == <<rlVars, appVars>>
vars == <<tokVars, rlVars, appVars>>

\* a slot of the middleware chain that holds no request
NoRequest == [pc |-> "idle"]

NoPassword == [pc |-> "none"]   \* validatePassword is not being called

Schools == {"s1", "s2"}
NoSchool == "none"   \* schoolId is null
Roles == {"super_admin", "teacher"}

\* the users' roles and schools: u1 teaches at s1, u2 is the platform admin
Profiles ==
  [u \in Users |-> IF u = Admin THEN [role |-> "super_admin", schoolId |-> NoSchool]
                                ELSE [role |-> "teacher", schoolId |-> "s1"]]

\* a token signed for a user whose row is no longer in the table (rows are
\* removed only outside the application)
OrphanToken == [id |-> "gone", role |-> "teacher", schoolId |-> "s1", exp |-> ACCESS_TOKEN_DAYS]

\* no request to a protected route is under way
AzIdle ==
  /\ profile = Profiles
  /\ accessTokens = <<OrphanToken>>
  /\ az = [pc |-> "idle"]
  /\ azLeft = 0
  /\ seen = {}
  /\ unswept = <<>>
  /\ pw = NoPassword

\* no request is in the middleware chain and nothing has been audited
AppIdle ==
  /\ http = [p \in Procs |-> NoRequest]
  /\ logBuffer = <<>>
  /\ auditTrail = <<>>
  /\ auditFault = FALSE
  /\ AzIdle

\* ------------------------------------------------------- pure functions
\* sha256 of the raw secret: deterministic and injective, not the identity
hashRefreshToken(token) == <<"sha256", token>>

Ids(toks) == 1..Len(toks)

Unexpired(r, t) == r.expiresAt > t

\* the lookup with the isRevoked condition left out
SelectValidIgnoringRevoked(toks, h, t) ==
  {i \in Ids(toks) : toks[i].tokenHash = h /\ Unexpired(toks[i], t)}

\* the lookup with the expiresAt condition left out
SelectValidIgnoringExpiry(toks, h, t) ==
  {i \in Ids(toks) : toks[i].tokenHash = h /\ ~toks[i].isRevoked}

\* WHERE tokenHash = h AND isRevoked = false AND expiresAt > now
SelectValid(toks, h, t) ==
  {i \in Ids(toks) : toks[i].tokenHash = h /\ ~toks[i].isRevoked /\ Unexpired(toks[i], t)}

\* the selection with the userId condition left out
SelectAnyActive(toks, u) == {i \in Ids(toks) : ~toks[i].isRevoked}

\* WHERE userId = u AND isRevoked = false
SelectUserActive(toks, u) ==
  {i \in Ids(toks) : toks[i].userId = u /\ ~toks[i].isRevoked}

\* the surplus without the slot for the token about to be inserted
SurplusCountOffByOne(n) ==
  IF n > MAX_TOKENS_PER_USER THEN n - MAX_TOKENS_PER_USER ELSE 0

\* userTokens.length - MAX_TOKENS_PER_USER + 1 when at or above the limit
SurplusCount(n) ==
  IF n >= MAX_TOKENS_PER_USER THEN n - MAX_TOKENS_PER_USER + 1 ELSE 0

\* userTokens.slice(0, k) of a list ordered by createdAt: S holds k tokens of
\* `active`, none newer than a token left out (ties in createdAt are ordered
\* arbitrarily by the database)
IsOldestSlice(toks, active, S, k) ==
  /\ S \subseteq active
  /\ Cardinality(S) = k
  /\ \A a \in S : \A b \in active \ S : toks[a].createdAt <= toks[b].createdAt

\* UPDATE ... SET isRevoked = true for the rows in S
SetRevoked(toks, S) ==
  [i \in Ids(toks) |->
     IF i \in S
       THEN [toks[i] EXCEPT !.isRevoked = TRUE]
       ELSE toks[i]]

\* a revoke that matches no row
RevokeMatchNone(toks, h) == {}

\* rows matched by revokeRefreshToken: WHERE tokenHash = h
RevokeMatch(toks, h) == {i \in Ids(toks) : toks[i].tokenHash = h}

\* the sweep's match with the isRevoked condition left out
ExpiredMatchIgnoringRevoked(toks, t) == {i \in Ids(toks) : toks[i].expiresAt < t}

\* rows matched by cleanupExpiredTokens: WHERE isRevoked = false AND expiresAt < now
ExpiredMatch(toks, t) == {i \in Ids(toks) : ~toks[i].isRevoked /\ toks[i].expiresAt < t}

\* id of the newest record of user u (0 if there is none)
NewestOf(toks, u) ==
  LET own == {i \in Ids(toks) : toks[i].userId = u}
  IN IF own = {} THEN 0 ELSE CHOOSE i \in own : \A j \in own : j <= i

NewToken(u, exp, t, raw) ==
  [userId |-> u, tokenHash |-> hashRefreshToken(raw), expiresAt |-> exp,
   isRevoked |-> FALSE, createdAt |-> t]

\* ------------------------------------------------------------ initial state
Idle ==
  [pc |-> "idle", op |-> "none", token |-> 0, logoutAll |-> FALSE,
   userId |-> NoUser, toRevoke |-> {}, expiresAt |-> 0, rec |-> 0,
   isValid |-> FALSE, status |-> 0, error |-> "", count |-> 0,
   sawValid |-> FALSE, sawInactive |-> FALSE, sawDeact |-> FALSE, sawLive |-> 0,
   sawCreds |-> FALSE]

\* Of a request slot, the fields sawValid, sawInactive, sawDeact, sawLive and
\* sawCreds (of a login: the email was known, the account active and the
\* password right) are history: what was true of the store when the handler looked, read from the
\* tables themselves and not from the handler's own query results.

\* The store after MAX_TOKENS_PER_USER - 1 earlier logins of u1, one a day, the
\* last of them today (day 0).
SeedTokens ==
  [i \in 1..(MAX_TOKENS_PER_USER - 1) |->
     LET day == i - (MAX_TOKENS_PER_USER - 1) IN NewToken("u1", day + EXPIRY_DAYS, day, i)]

Init ==
  /\ users = [u \in Users |-> [isActive |-> TRUE]]
  /\ refreshTokens = SeedTokens
  /\ now = 0
  /\ req = [p \in Procs |-> Idle]
  /\ left = MaxReqs
  /\ rateLimitStore = <<>>
  /\ rlNow = 0
  /\ rlLog = [k \in Keys |-> <<>>]
  /\ rlLeft = 0
  /\ deactMark = [u \in Users |-> 0]
  /\ AppIdle

\* ------------------------------------------------------------ helpers
Set(p, r) == req' = [req EXCEPT ![p] = r]

\* the response: the handler's locals are gone, what was sent stays visible
Done(r, status, error) ==
  [r EXCEPT !.pc = "done", !.status = status, !.error = error,
            !.toRevoke = {}, !.expiresAt = 0, !.rec = 0]

\* ground truth about the record a raw token was issued for
TokenLive(t) ==
  /\ t \in Ids(refreshTokens)
  /\ ~refreshTokens[t].isRevoked
  /\ refreshTokens[t].expiresAt > now

\* the user the record of raw token t belongs to is active
OwnerActive(t) ==
  /\ t \in Ids(refreshTokens)
  /\ users[refreshTokens[t].userId].isActive

\* records of user u that are non-revoked and unexpired: u's usable sessions
LiveOf(u) ==
  {i \in Ids(refreshTokens) :
     /\ refreshTokens[i].userId = u
     /\ ~refreshTokens[i].isRevoked
     /\ refreshTokens[i].expiresAt > now}

\* number of usable sessions of the owner of raw token t
LiveCount(t) ==
  IF t \in Ids(refreshTokens) THEN Cardinality(LiveOf(refreshTokens[t].userId)) ELSE 0

\* the owner of the record issued for raw token t was deactivated after issue
DeactivatedSinceIssue(t) ==
  /\ t \in Ids(refreshTokens)
  /\ t <= deactMark[refreshTokens[t].userId]

\* request slots are interchangeable: a new request takes the first free one
FirstFree(p) == req[p].pc = "idle" /\ (p = "p2" => req["p1"].pc # "idle")

\* ------------------------------------------------------------ POST /login
\* generateAuthTokens(user, userAgent, ip): the refresh token is issued through
\* the store's createRefreshToken(user.id, deviceInfo)
generateAuthTokens(r, u) == [r EXCEPT !.pc = "cleanupSelect", !.userId = u]

\* what the login's credentials were, whatever the handler made of them
Credentials(email, passwordOk) ==
  email # NoUser /\ users[email].isActive /\ passwordOk

\* a login that issues tokens without comparing the password
LoginFindUserAnyPassword(p, email, passwordOk) ==
  /\ FirstFree(p)
  /\ left > 0
  /\ left' = left - 1
  /\ LET r == [Idle EXCEPT !.op = "login", !.sawCreds = Credentials(email, passwordOk)] IN
       IF email = NoUser
         THEN Set(p, Done(r, 401, "Invalid credentials"))
       ELSE IF ~users[email].isActive
         THEN Set(p, Done([r EXCEPT !.userId = email], 401, "Account is inactive"))
       ELSE Set(p, generateAuthTokens(r, email))
  /\ UNCHANGED <<nonTokVars, users, refreshTokens, now, deactMark>>

\* select the user by email, check isActive, bcrypt-compare the password
LoginFindUser(p, email, passwordOk) ==
  /\ FirstFree(p)
  /\ left > 0
  /\ left' = left - 1
  /\ LET r == [Idle EXCEPT !.op = "login", !.sawCreds = Credentials(email, passwordOk)] IN
       IF email = NoUser
         THEN Set(p, Done(r, 401, "Invalid credentials"))
       ELSE IF ~users[email].isActive
         THEN Set(p, Done([r EXCEPT !.userId = email], 401, "Account is inactive"))
       ELSE IF ~passwordOk
         THEN Set(p, Done([r EXCEPT !.userId = email], 401, "Invalid credentials"))
       ELSE Set(p, generateAuthTokens(r, email))
  /\ UNCHANGED <<nonTokVars, users, refreshTokens, now, deactMark>>

\* createRefreshToken: expiresAt = now + EXPIRY_DAYS, then cleanupOldTokens'
\* SELECT of the user's non-revoked tokens ordered by createdAt
CleanupSelect(p) ==
  /\ req[p].pc = "cleanupSelect"
  /\ LET active == SelectUserActive(refreshTokens, req[p].userId)
         k == SurplusCount(Cardinality(active))
     IN \E S \in SUBSET active :
          /\ IsOldestSlice(refreshTokens, active, S, k)
          /\ Set(p, [req[p] EXCEPT !.pc = IF S = {} THEN "insert" ELSE "cleanupRevoke",
                                    !.toRevoke = S,
                                    !.expiresAt = now + EXPIRY_DAYS])
  /\ UNCHANGED <<nonTokVars, users, refreshTokens, now, deactMark, left>>

\* one iteration of cleanupOldTokens' loop: UPDATE ... WHERE id = token.id
CleanupRevoke(p) ==
  /\ req[p].pc = "cleanupRevoke"
  /\ \E i \in req[p].toRevoke :
       /\ \A j \in req[p].toRevoke : refreshTokens[i].createdAt <= refreshTokens[j].createdAt
       /\ refreshTokens' = SetRevoked(refreshTokens, {i})
       /\ Set(p, [req[p] EXCEPT !.toRevoke = @ \ {i},
                                 !.pc = IF req[p].toRevoke = {i} THEN "insert" ELSE @])
  /\ UNCHANGED <<nonTokVars, users, now, deactMark, left>>

\* INSERT of the new record; the fresh secret is returned to the client
InsertToken(p) ==
  /\ req[p].pc = "insert"
  /\ LET raw == Len(refreshTokens) + 1 IN
       /\ refreshTokens' = Append(refreshTokens,
                                  NewToken(req[p].userId, req[p].expiresAt, now, raw))
       /\ Set(p, [Done(req[p], 200, "") EXCEPT !.token = raw])
  /\ UNCHANGED <<nonTokVars, users, now, deactMark, left>>

\* ---------------------------------------------------- verifyRefreshToken
\* pc after verifyRefreshToken returned to its caller
AfterVerify(r, valid) ==
  IF r.op = "refresh"
    THEN IF valid THEN [r EXCEPT !.pc = "refreshUser", !.isValid = TRUE]
                  ELSE Done([r EXCEPT !.isValid = FALSE], 401, "Invalid or expired refresh token")
    ELSE IF valid /\ r.logoutAll
           THEN [r EXCEPT !.pc = "revokeAll", !.isValid = TRUE]
           ELSE [r EXCEPT !.pc = "revokeOne", !.isValid = valid]

\* the request arrives and the lookup by hash runs
VerifyLookup(p, op, t, all) ==
  /\ FirstFree(p)
  /\ left > 0
  /\ left' = left - 1
  /\ LET found == SelectValid(refreshTokens, hashRefreshToken(t), now)
         r == [Idle EXCEPT !.op = op, !.token = t, !.logoutAll = all,
                           !.sawValid = TokenLive(t),
                           !.sawDeact = DeactivatedSinceIssue(t)]
     IN IF found = {}
          THEN Set(p, AfterVerify(r, FALSE))
          ELSE \E i \in found :
                 Set(p, [r EXCEPT !.pc = "verifyUser", !.rec = i,
                                  !.userId = refreshTokens[i].userId])
  /\ UNCHANGED <<nonTokVars, users, refreshTokens, now, deactMark>>

\* SELECT id, isActive FROM users WHERE id = token_record.userId
VerifyUser(p) ==
  /\ req[p].pc = "verifyUser"
  /\ LET r == [req[p] EXCEPT !.sawInactive = ~OwnerActive(req[p].token)] IN
       IF ~users[req[p].userId].isActive
         THEN Set(p, [r EXCEPT !.pc = "verifyRevoke"])
         ELSE Set(p, [r EXCEPT !.pc = "verifyUpdate"])
  /\ UNCHANGED <<nonTokVars, users, refreshTokens, now, deactMark, left>>

\* revokeRefreshToken(token) for an inactive owner, then { isValid: false }
VerifyRevoke(p) ==
  /\ req[p].pc = "verifyRevoke"
  /\ refreshTokens' = SetRevoked(refreshTokens,
                                 RevokeMatch(refreshTokens, hashRefreshToken(req[p].token)))
  /\ Set(p, AfterVerify(req[p], FALSE))
  /\ UNCHANGED <<nonTokVars, users, now, deactMark, left>>

\* UPDATE lastUsedAt WHERE id = token_record.id, then { isValid: true }
VerifyUpdate(p) ==
  /\ req[p].pc = "verifyUpdate"
  /\ Set(p, AfterVerify(req[p], TRUE))
  /\ UNCHANGED <<nonTokVars, users, refreshTokens, now, deactMark, left>>

\* ---------------------------------------------------------- POST /refresh
\* reload the user; an access token is issued only for an active user
RefreshUser(p) ==
  /\ req[p].pc = "refreshUser"
  /\ IF users[req[p].userId].isActive
       THEN Set(p, Done(req[p], 200, ""))
       ELSE Set(p, Done(req[p], 401, "User not found or inactive"))
  /\ UNCHANGED <<nonTokVars, users, refreshTokens, now, deactMark, left>>

\* ----------------------------------------------------------- POST /logout
\* revokeAllUserTokens(userId)
RevokeAll(p) ==
  /\ req[p].pc = "revokeAll"
  /\ LET S == SelectUserActive(refreshTokens, req[p].userId) IN
       /\ refreshTokens' = SetRevoked(refreshTokens, S)
       /\ Set(p, [Done(req[p], 200, "") EXCEPT !.count = Cardinality(S),
                                                !.sawLive = LiveCount(req[p].token)])
  /\ UNCHANGED <<nonTokVars, users, now, deactMark, left>>

\* revokeRefreshToken(refreshToken): single-device logout
RevokeOne(p) ==
  /\ req[p].pc = "revokeOne"
  /\ LET M == RevokeMatch(refreshTokens, hashRefreshToken(req[p].token)) IN
       /\ refreshTokens' = SetRevoked(refreshTokens, M)
       /\ IF M = {} THEN Set(p, Done(req[p], 400, "Invalid refresh token"))
                    ELSE Set(p, Done(req[p], 200, ""))
  /\ UNCHANGED <<nonTokVars, users, now, deactMark, left>>

\* the response is sent; the slot is free again
Return(p) ==
  /\ req[p].pc = "done"
  /\ Set(p, Idle)
  /\ UNCHANGED <<nonTokVars, users, refreshTokens, now, deactMark, left>>

\* ------------------------------------------------- users routes, sweep, clock
\* DELETE /users/:id by an authorised admin
Deactivate(u) ==
  /\ u # Admin        \* "Cannot deactivate your own account"
  /\ users[Admin].isActive
  /\ left > 0
  /\ left' = left - 1
  /\ users' = [users EXCEPT ![u].isActive = FALSE]
  /\ deactMark' = IF users[u].isActive
                     THEN [deactMark EXCEPT ![u] = NewestOf(refreshTokens, u)]
                     ELSE deactMark
  /\ UNCHANGED <<nonTokVars, refreshTokens, now, req>>

\* POST /users/:id/activate by an authorised admin
Activate(u) ==
  /\ users[Admin].isActive
  /\ left > 0
  /\ left' = left - 1
  /\ users' = [users EXCEPT ![u].isActive = TRUE]
  /\ UNCHANGED <<nonTokVars, refreshTokens, now, req, deactMark>>

\* cleanupExpiredTokens()
Sweep ==
  /\ refreshTokens' = SetRevoked(refreshTokens, ExpiredMatch(refreshTokens, now))
  /\ UNCHANGED <<nonTokVars, users, now, req, deactMark, left>>

Tick ==
  /\ now < MaxTicks * DaysPerTick
  /\ now' = now + DaysPerTick
  /\ UNCHANGED <<nonTokVars, users, refreshTokens, req, deactMark, left>>

\* --------------------------------------------------------- specification
\* raw tokens a client presents: one no record was ever created for (0), the
\* two oldest seeded ones, any new one
Presented == {0, 1, 2} \cup ((Len(SeedTokens) + 1)..Len(refreshTokens))

\* a request arrives: the first statement of its handler runs
Start(p) ==
  \/ \E e \in Users \cup {NoUser}, ok \in BOOLEAN : LoginFindUser(p, e, ok)
  \/ \E t \in Presented : VerifyLookup(p, "refresh", t, FALSE)
  \/ \E t \in Presented, all \in BOOLEAN : VerifyLookup(p, "logout", t, all)

\* the next statement of a handler that is under way
Continue(p) ==
  \/ CleanupSelect(p)
  \/ CleanupRevoke(p)
  \/ InsertToken(p)
  \/ VerifyUser(p)
  \/ VerifyRevoke(p)
  \/ VerifyUpdate(p)
  \/ RefreshUser(p)
  \/ RevokeAll(p)
  \/ RevokeOne(p)
  \/ Return(p)

Env ==
  \/ \E u \in Users : Deactivate(u)
  \/ \E u \in Users : Activate(u)
  \/ Sweep
  \/ Tick

\* requests interleave at every await
Next == (\E p \in Procs : Start(p) \/ Continue(p)) \/ Env

Spec == Init /\ [][Next]_vars

\* requests handled one at a time: nothing else happens while a handler runs
AllIdle == \A p \in Procs : req[p].pc = "idle"

InitSeq ==
  /\ users = [u \in Users |-> [isActive |-> TRUE]]
  /\ refreshTokens = SeedTokens
  /\ now = 0
  /\ req = [p \in Procs |-> Idle]
  /\ left = MaxSeqReqs
  /\ rateLimitStore = <<>>
  /\ rlNow = 0
  /\ rlLog = [k \in Keys |-> <<>>]
  /\ rlLeft = 0
  /\ deactMark = [u \in Users |-> 0]
  /\ AppIdle

NextSeq ==
  \/ AllIdle /\ ((\E p \in Procs : Start(p)) \/ Env)
  \/ ~AllIdle /\ (\E p \in Procs : Continue(p))

SpecSeq == InitSeq /\ [][NextSeq]_vars

\* ------------------------------------------------------------ rate limiter
\* record.count++ left out
BumpedNoIncrement(record) == record

\* record.count++
Bumped(record) == [record EXCEPT !.count = @ + 1]

\* the limit test off by one
OverLimitOffByOne(count, max) == count >= max

\* record.count > max
OverLimit(count, max) == count > max

\* v.resetTime < now
WindowOver(record, t) == record.resetTime < t

\* "Clean up expired entries": every entry whose window is over is deleted
Reaped(store, t) ==
  [k \in {k \in DOMAIN store : ~WindowOver(store[k], t)} |-> store[k]]

\* the record written back as a fresh one whatever the store holds
CountedOverwrite(store, key, t, windowMs) ==
  [k \in DOMAIN Reaped(store, t) \cup {key} |->
     IF k = key THEN [count |-> 1, resetTime |-> t + windowMs] ELSE store[k]]

\* the store after the limiter counted one request of `key` at time t
Counted(store, key, t, windowMs) ==
  LET kept == Reaped(store, t)
      record == IF key \notin DOMAIN kept \/ WindowOver(kept[key], t)
                  THEN [count |-> 1, resetTime |-> t + windowMs]
                  ELSE Bumped(kept[key])
  IN [k \in DOMAIN kept \cup {key} |-> IF k = key THEN record ELSE kept[k]]

\* the middleware built by rateLimit({windowMs, max}) handles one request:
\* it runs without an await up to the 429 or the call of next()
RateLimitRequest(key, windowMs, max) ==
  /\ rlLeft > 0
  /\ rlLeft' = rlLeft - 1
  /\ rateLimitStore' = Counted(rateLimitStore, key, rlNow, windowMs)
  /\ rlLog' = [rlLog EXCEPT ![key] =
                 Append(@, [at |-> rlNow,
                            reset |-> rateLimitStore'[key].resetTime,
                            admitted |-> ~OverLimit(rateLimitStore'[key].count, max)])]
  /\ UNCHANGED <<tokVars, appVars, rlNow>>

RlTick ==
  /\ rlNow < MaxRlTime
  /\ rlNow' = rlNow + 1
  /\ UNCHANGED <<tokVars, appVars, rateLimitStore, rlLeft, rlLog>>

InitRL ==
  /\ users = [u \in Users |-> [isActive |-> TRUE]]
  /\ refreshTokens = SeedTokens
  /\ now = 0
  /\ req = [p \in Procs |-> Idle]
  /\ left = 0
  /\ deactMark = [u \in Users |-> 0]
  /\ AppIdle
  /\ rateLimitStore = <<>>
  /\ rlNow = 0
  /\ rlLog = [k \in Keys |-> <<>>]
  /\ rlLeft = MaxAttempts

\* one limiter, configured as the production login limiter
NextRL ==
  \/ \E k \in Keys : RateLimitRequest(k, WindowTicks, LOGIN_MAX)
  \/ RlTick

SpecRL == InitRL /\ [][NextRL]_vars

\* ------------------------------------------------------------ audit logger
\* An audit entry.  `details` is the set of <<field, source>> pairs the caller
\* copies into the entry: which value of the request or of the store each
\* field of details / metadata holds.  ipAddress, userAgent, resource, action
\* and timestamp are not represented.
AuditEntry(eventType, severity, success, errorMessage, details) ==
  [eventType |-> eventType, severity |-> severity, success |-> success,
   errorMessage |-> errorMessage, details |-> details]

\* the entry as log() stores it: generateId() gives it an id of its own
Stored(entry, n) ==
  [id |-> n, eventType |-> entry.eventType, severity |-> entry.severity,
   success |-> entry.success, errorMessage |-> entry.errorMessage,
   details |-> entry.details]

\* flushBuffer()
Flushed(buffer) == <<>>

\* logBuffer.push(auditEntry), then flushBuffer() if the buffer holds more
\* than FLUSH_ABOVE entries
Pushed(buffer, entry) ==
  IF Len(Append(buffer, entry)) > FLUSH_ABOVE
    THEN Flushed(Append(buffer, entry))
    ELSE Append(buffer, entry)

\* logAuth: severity
AuthSeverity(type, success) ==
  IF success THEN (IF type = "password_change" THEN "medium" ELSE "low") ELSE "high"

\* logAuth: eventTypeMap and the failed-login special case
AuthEventType(type, success) ==
  IF type = "login" THEN (IF success THEN "login_success" ELSE "login_failed")
  ELSE IF type = "logout" THEN "logout"
  ELSE IF type = "password_change" THEN "password_change"
  ELSE "token_refresh"

\* AuditLogger.logAuth(type, context)
logAuth(type, success, errorMessage, details) ==
  AuditEntry(AuthEventType(type, success), AuthSeverity(type, success),
             success, errorMessage, details)

\* AuditLogger.logSecurity(eventType, context): success is always false
logSecurity(eventType, severity, details) ==
  AuditEntry(eventType, severity, FALSE, "", details)

\* the details with the Authorization header copied in
MiddlewareDetailsWithHeader ==
  {<<"endpoint", "path">>, <<"status", "status">>, <<"timestamp", "clock">>,
   <<"authHeader", "header.authorization">>}

\* what auditMiddleware copies into details
MiddlewareDetails == {<<"endpoint", "path">>, <<"status", "status">>, <<"timestamp", "clock">>}

\* logAuthEvent(c, method, path, status, ...): <<logged, entry>>
logAuthEvent(path, status) ==
  LET success == status < 400
      entry(eventType, severity) ==
        <<TRUE, AuditEntry(eventType, severity, success, "", MiddlewareDetails)>>
  IN IF path = "/api/auth/login"
       THEN entry(IF success THEN "login_success" ELSE "login_failed",
                  IF success THEN "low" ELSE "high")
     ELSE IF path = "/api/auth/logout" THEN entry("logout", "low")
     ELSE IF path = "/api/auth/refresh"
       THEN entry("token_refresh", IF success THEN "low" ELSE "medium")
     ELSE IF path = "/api/auth/change-password" THEN entry("password_change", "medium")
     ELSE <<FALSE, AuditEntry("none", "low", success, "", {})>>

\* logErrorEvent(c, method, path, status, ...)
logErrorEvent(path, status) ==
  LET entry(eventType, severity) ==
        <<TRUE, AuditEntry(eventType, severity, FALSE, "",
                           MiddlewareDetails \cup {<<"httpMethod", "method">>})>>
  IN IF status = 401 THEN entry("access_denied", "medium")
     ELSE IF status = 403 THEN entry("access_denied", "high")
     ELSE IF status = 429 THEN entry("rate_limit_exceeded", "high")
     ELSE IF status >= 500 THEN entry("suspicious_activity", "critical")
     ELSE entry("suspicious_activity", "medium")

\* path.startsWith('/api/auth/')
IsAuthPath(path) ==
  path \in {"/api/auth/login", "/api/auth/logout", "/api/auth/refresh",
            "/api/auth/change-password", "/api/auth/me"}

\* auditMiddleware after `await next()` returned: the entry it logs, if any
\* (logSecurityEvent's data-mutation events and the slow-request entry are not
\* represented: no route of this model is a users/schools/grades mutation)
AuditAfterNext(path, status) ==
  IF IsAuthPath(path) THEN logAuthEvent(path, status)
  ELSE IF status >= 400 THEN logErrorEvent(path, status)
  ELSE <<FALSE, AuditEntry("none", "low", TRUE, "", {})>>

\* ------------------------------------- rate limiter, requests in flight
\* The function rateLimit returns runs from keyGenerator(c) to the limit test
\* without an await, so it is one step; the request then waits in
\* `await next()` while other requests enter the limiter.

\* lines 23-44 of the limiter for one request of `key`
LimiterEnter(p, key, windowMs, max) ==
  /\ http[p].pc = "idle"
  /\ rlLeft > 0
  /\ rlLeft' = rlLeft - 1
  /\ rateLimitStore' = Counted(rateLimitStore, key, rlNow, windowMs)
  /\ LET over == OverLimit(rateLimitStore'[key].count, max) IN
       /\ rlLog' = [rlLog EXCEPT ![key] =
                      Append(@, [at |-> rlNow,
                                 reset |-> rateLimitStore'[key].resetTime,
                                 admitted |-> ~over])]
       /\ http' = [http EXCEPT ![p] =
                     [pc |-> IF over THEN "thrown" ELSE "next", key |-> key]]
  /\ UNCHANGED <<tokVars, rlNow, audVars, azVars>>

\* await next() returns: the rest of the chain has produced the response
LimiterLeave(p) ==
  /\ http[p].pc = "next"
  /\ http' = [http EXCEPT ![p] = NoRequest]
  /\ UNCHANGED <<tokVars, rlVars, audVars, azVars>>

\* throw new HTTPException(429, { message }): the request ends here
LimiterThrow(p) ==
  /\ http[p].pc = "thrown"
  /\ http' = [http EXCEPT ![p] = NoRequest]
  /\ UNCHANGED <<tokVars, rlVars, audVars, azVars>>

\* one limiter configured as the production login limiter, requests overlapping
NextRLC ==
  \/ \E p \in Procs, k \in Keys : LimiterEnter(p, k, WindowTicks, LOGIN_MAX)
  \/ \E p \in Procs : LimiterLeave(p)
  \/ \E p \in Procs : LimiterThrow(p)
  \/ RlTick

SpecRLC == InitRL /\ [][NextRLC]_vars

\* ------------------------------------------- the wired middleware chain
\* index.ts mounts, in this order: securityHeaders, requestLogger,
\* limitContentLength, auditMiddleware, tokenAuditMiddleware, cors,
\* rateLimitAuditMiddleware + rateLimit on /api/auth/login,
\* rateLimitAuditMiddleware + rateLimit on /api/*, sanitizeInput, logger and
\* the routes.  A request runs down the chain to the limiters without an
\* await; sanitizeInput awaits the body, then the route handler runs; the
\* middlewares resume in reverse order after their `await next()`.
AuthPaths == {"/api/auth/login", "/api/auth/refresh", "/api/auth/logout",
              "/api/auth/change-password"}

AppKey == "ip1"

\* Hono's compose with the error handler of app.onError registered: an Error
\* thrown by a middleware or handler is handed to the error handler at the
\* level where it is thrown and the handler's result becomes the response, so
\* the `await next()` of the middlewares above never rejects
NextRejects(thrown) == FALSE

\* app.onError: an HTTPException answers with its own status
OnErrorStatus(thrown) == IF thrown = "HTTPException429" THEN 429 ELSE 500

\* the two limiters a request passes, sharing rateLimitStore and the key:
\* <<store afterwards, rejected>>
Limited(store, path, key, t) ==
  LET s1 == IF path = "/api/auth/login" THEN Counted(store, key, t, WindowTicks) ELSE store
      over1 == path = "/api/auth/login" /\ OverLimit(s1[key].count, LOGIN_MAX)
      s2 == IF over1 THEN s1 ELSE Counted(s1, key, t, WindowTicks)
  IN <<s2, over1 \/ OverLimit(s2[key].count, API_MAX)>>

\* rateLimitAuditMiddleware: its catch block logs an error whose message
\* includes 'Too many' and rethrows it
rateLimitAuditMiddleware(path, thrown) ==
  IF NextRejects(thrown) /\ thrown = "HTTPException429"
    THEN <<TRUE, logSecurity("rate_limit_exceeded", "high",
                             {<<"endpoint", "path">>, <<"method", "method">>,
                              <<"timestamp", "clock">>, <<"rateLimitType", "literal">>})>>
    ELSE <<FALSE, AuditEntry("none", "low", TRUE, "", {})>>

\* a request arrives and passes the limiters
Arrive(p, path, key) ==
  /\ \A q \in Procs : http[q].pc = "idle"
  /\ FirstFree(p)
  /\ rlLeft > 0
  /\ rlLeft' = rlLeft - 1
  /\ LET lim == Limited(rateLimitStore, path, key, rlNow) IN
       /\ rateLimitStore' = lim[1]
       /\ http' = [http EXCEPT ![p] =
                     [pc |-> IF lim[2] THEN "unwind" ELSE "route",
                      path |-> path, key |-> key,
                      thrown |-> IF lim[2] THEN "HTTPException429" ELSE "",
                      status |-> IF lim[2] THEN OnErrorStatus("HTTPException429") ELSE 0,
                      intended |-> IF lim[2] THEN 429 ELSE 0,
                      handled |-> FALSE, logged |-> {}]]
  /\ UNCHANGED <<tokVars, rlNow, rlLog, audVars, azVars>>

\* the first statement of the route handler
RouteStart(p) ==
  /\ http[p].pc = "route"
  /\ req[p].pc = "idle"
  /\ \/ /\ http[p].path = "/api/auth/login"
        /\ \E e \in Users \cup {NoUser}, ok \in BOOLEAN : LoginFindUser(p, e, ok)
     \/ /\ http[p].path = "/api/auth/refresh"
        /\ \E t \in {0, 1} : VerifyLookup(p, "refresh", t, FALSE)
     \/ /\ http[p].path = "/api/auth/logout"
        /\ \E t \in {0, 1}, all \in BOOLEAN : VerifyLookup(p, "logout", t, all)

\* the next statement of the route handler
RouteContinue(p) ==
  /\ http[p].pc = "route"
  /\ \/ CleanupSelect(p)
     \/ CleanupRevoke(p)
     \/ InsertToken(p)
     \/ VerifyUser(p)
     \/ VerifyRevoke(p)
     \/ VerifyUpdate(p)
     \/ RefreshUser(p)
     \/ RevokeAll(p)
     \/ RevokeOne(p)

\* PUT /change-password behind authMiddleware: 401 from authMiddleware, 400 for
\* a rejected new or wrong current password, 200 after the UPDATE of
\* passwordHash (a column this model does not hold); no logAuth call
ChangePassword(p, status) ==
  /\ http[p].pc = "route"
  /\ http[p].path = "/api/auth/change-password"
  /\ http' = [http EXCEPT ![p].pc = "unwind", ![p].handled = status # 401,
                          ![p].intended = status, ![p].status = status]
  /\ UNCHANGED <<tokVars, rlVars, audVars, azVars>>

\* the auditLogger.logAuth call that precedes the handler's return, if any
HandlerAudit(r) ==
  LET none == <<FALSE, AuditEntry("none", "low", TRUE, "", {})>>
      email == <<"email", "body.email">>
      id == <<"userId", "users.id">>
  IN IF r.op = "login" THEN
       IF r.status = 200
         THEN <<TRUE, logAuth("login", TRUE, "",
                              {email, id, <<"role", "users.role">>,
                               <<"schoolId", "users.schoolId">>})>>
       ELSE IF r.error = "Account is inactive"
         THEN <<TRUE, logAuth("login", FALSE, "Account is inactive", {email, id})>>
       ELSE IF r.userId = NoUser
         THEN <<TRUE, logAuth("login", FALSE, "User not found", {email})>>
       ELSE <<TRUE, logAuth("login", FALSE, "Invalid password", {email, id})>>
     ELSE IF r.op = "logout" THEN
       IF r.status = 400
         THEN <<TRUE, logAuth("logout", FALSE, "Invalid refresh token",
                              {<<"logoutType", "literal">>})>>
       ELSE IF r.logoutAll /\ r.isValid
         THEN <<TRUE, logAuth("logout", TRUE, "",
                              {<<"logoutType", "literal">>,
                               <<"revokedSessionsCount", "count">>})>>
       ELSE <<TRUE, logAuth("logout", TRUE, "", {<<"logoutType", "literal">>})>>
     ELSE none

\* AuditLogger.log(entry) on the logger's state
Log(entry) ==
  /\ logBuffer' = Pushed(logBuffer, Stored(entry, Len(auditTrail) + 1))
  /\ auditTrail' = Append(auditTrail, Stored(entry, Len(auditTrail) + 1))

\* the handler logs and returns; a rejected logAuth lands in the handler's
\* catch block, which answers 500
RouteReturn(p) ==
  /\ http[p].pc = "route"
  /\ req[p].pc = "done"
  /\ LET a == HandlerAudit(req[p])
         failed == a[1] /\ auditFault
     IN /\ IF a[1] /\ ~auditFault THEN Log(a[2]) ELSE UNCHANGED <<logBuffer, auditTrail>>
        /\ http' = [http EXCEPT ![p].pc = "unwind",
                                ![p].handled = TRUE,
                                ![p].intended = req[p].status,
                                ![p].status = IF failed THEN 500 ELSE req[p].status,
                                ![p].logged = IF a[1] /\ ~auditFault
                                                THEN @ \cup {a[2].eventType} ELSE @]
  /\ Set(p, Idle)
  /\ UNCHANGED <<rlVars, users, refreshTokens, now, deactMark, left, auditFault, azVars>>

\* the middlewares above resume: rateLimitAuditMiddleware, then
\* auditMiddleware after its `await next()`; a rejected log lands in
\* auditMiddleware's catch block, whose own logFromContext is rejected too,
\* and the error reaches app.onError
Unwind(p) ==
  /\ http[p].pc = "unwind"
  /\ LET a1 == rateLimitAuditMiddleware(http[p].path, http[p].thrown)
         a2 == AuditAfterNext(http[p].path, http[p].status)
         entries == (IF a1[1] THEN <<a1[2]>> ELSE <<>>) \o (IF a2[1] THEN <<a2[2]>> ELSE <<>>)
         failed == entries # <<>> /\ auditFault
     IN /\ IF entries = <<>> \/ auditFault THEN UNCHANGED <<logBuffer, auditTrail>>
           ELSE IF Len(entries) = 1 THEN Log(entries[1])
           ELSE /\ logBuffer' = Pushed(Pushed(logBuffer, Stored(entries[1], Len(auditTrail) + 1)),
                                       Stored(entries[2], Len(auditTrail) + 2))
                /\ auditTrail' = auditTrail \o <<Stored(entries[1], Len(auditTrail) + 1),
                                                 Stored(entries[2], Len(auditTrail) + 2)>>
        /\ http' = [http EXCEPT ![p].pc = "respond",
                                ![p].status = IF failed THEN OnErrorStatus("Error") ELSE @,
                                ![p].logged = IF failed THEN @
                                              ELSE @ \cup {entries[i].eventType : i \in 1..Len(entries)}]
  /\ UNCHANGED <<tokVars, rlVars, auditFault, azVars>>

\* the response leaves the server
Respond(p) ==
  /\ http[p].pc = "respond"
  /\ http' = [http EXCEPT ![p] = NoRequest]
  /\ UNCHANGED <<tokVars, rlVars, audVars, azVars>>

\* from now on AuditLogger.log rejects
AuditSinkFails ==
  /\ ~auditFault
  /\ auditFault' = TRUE
  /\ UNCHANGED <<tokVars, rlVars, http, logBuffer, auditTrail, azVars>>

InitApp ==
  /\ users = [u \in Users |-> [isActive |-> TRUE]]
  /\ refreshTokens = SeedTokens
  /\ now = 0
  /\ req = [p \in Procs |-> Idle]
  /\ left = MaxAppReqs
  /\ deactMark = [u \in Users |-> 0]
  /\ rateLimitStore = <<>>
  /\ rlNow = 0
  /\ rlLog = [k \in Keys |-> <<>>]
  /\ rlLeft = MaxAppReqs
  /\ AppIdle

\* requests are taken through the chain one at a time
NextApp ==
  \/ \E p \in Procs, path \in AuthPaths : Arrive(p, path, AppKey)
  \/ \E p \in Procs : RouteStart(p)
  \/ \E p \in Procs : RouteContinue(p)
  \/ \E p \in Procs : RouteReturn(p)
  \/ \E p \in Procs, status \in {200, 400, 401} : ChangePassword(p, status)
  \/ \E p \in Procs : Unwind(p)
  \/ \E p \in Procs : Respond(p)

SpecApp == InitApp /\ [][NextApp]_vars

\* The logger after FLUSH_ABOVE - 1 earlier successful refreshes, each audited
\* once by auditMiddleware.
SeedEntries ==
  [i \in 1..(FLUSH_ABOVE - 1) |-> Stored(logAuthEvent("/api/auth/refresh", 200)[2], i)]

InitAudit ==
  /\ users = [u \in Users |-> [isActive |-> TRUE]]
  /\ refreshTokens = SeedTokens
  /\ now = 0
  /\ req = [p \in Procs |-> Idle]
  /\ left = MaxAppReqs
  /\ deactMark = [u \in Users |-> 0]
  /\ rateLimitStore = <<>>
  /\ rlNow = 0
  /\ rlLog = [k \in Keys |-> <<>>]
  /\ rlLeft = MaxAppReqs
  /\ http = [p \in Procs |-> NoRequest]
  /\ logBuffer = SeedEntries
  /\ auditTrail = SeedEntries
  /\ auditFault = FALSE
  /\ AzIdle

\* the chain with a logger that has been in use for a while
SpecAudit == InitAudit /\ [][NextApp]_vars

\* the same, with the audit writes failing from some point on
NextFault == NextApp \/ AuditSinkFails

SpecFault == InitApp /\ [][NextFault]_vars

\* ------------------------------------------------ protected routes, tenants
Routes == {"documents", "assignments"}
Missing == "r0"      \* an id no row has
ResourceSchool == [r1 |-> "s1", r2 |-> "s2"]   \* schoolId of the rows with these ids
Targets == DOMAIN ResourceSchool \cup {Missing}
NoHeader == 0 - 1    \* no Authorization: Bearer header; a token no signature made is 0

\* generateToken signing an expiry as far off as the refresh token's
generateTokenLongLived(u, row, t) ==
  [id |-> u, role |-> row.role, schoolId |-> row.schoolId, exp |-> t + EXPIRY_DAYS]

\* generateToken(user) at time t: the payload signed into the access token
generateToken(u, row, t) ==
  [id |-> u, role |-> row.role, schoolId |-> row.schoolId, exp |-> t + ACCESS_TOKEN_DAYS]

\* verifyToken with the expiry check left out
verifyTokenIgnoringExpiry(tokens, tok, t) ==
  IF tok \in 1..Len(tokens) THEN {tokens[tok]} ELSE {}

\* verifyToken(token) at time t: the decoded payload, or nothing (null)
verifyToken(tokens, tok, t) ==
  IF tok \in 1..Len(tokens) /\ tokens[tok].exp > t THEN {tokens[tok]} ELSE {}

\* the select joined with the user's non-revoked refresh tokens
SelectUserWithSession(id) ==
  IF id \in Users /\ SelectUserActive(refreshTokens, id) # {}
    THEN {[id |-> id, isActive |-> users[id].isActive,
           role |-> profile[id].role, schoolId |-> profile[id].schoolId]}
    ELSE {}

\* db.select().from(users).where(eq(users.id, id)).limit(1)
SelectUser(id) ==
  IF id \in Users
    THEN {[id |-> id, isActive |-> users[id].isActive,
           role |-> profile[id].role, schoolId |-> profile[id].schoolId]}
    ELSE {}

\* the response of a middleware or handler that answers the request
AzDone(r, status, error) == [r EXCEPT !.pc = "done", !.status = status, !.error = error]

\* requireSchoolAccess: the response it gives, or nothing when it calls next()
requireSchoolAccess(user) ==
  IF user.role = "super_admin" THEN {}
  ELSE IF user.schoolId = NoSchool THEN {<<403, "No school access">>}
  ELSE {}

\* GET /:id of the documents and of the assignments router, after the select
GetByIdResponse(currentUser, route, target) ==
  IF target \notin DOMAIN ResourceSchool
    THEN <<404, IF route = "documents" THEN "Document not found" ELSE "Assignment not found">>
  ELSE IF currentUser.role # "super_admin" /\ currentUser.schoolId # ResourceSchool[target]
    THEN <<403, "Access denied">>
  ELSE <<200, "">>

\* POST /refresh signs a new access token for a user it found active
IssueToken(u) ==
  /\ users[u].isActive
  /\ Len(accessTokens) < 1 + MaxIssued
  /\ accessTokens' = Append(accessTokens, generateToken(u, profile[u], now))
  /\ UNCHANGED <<tokVars, rlVars, http, audVars, profile, az, azLeft, seen, unswept, pw>>

\* authMiddleware up to its select of the subject user
AuthStart(tok, route, target) ==
  /\ az.pc = "idle"
  /\ azLeft > 0
  /\ azLeft' = azLeft - 1
  /\ LET payload == verifyToken(accessTokens, tok, now)
         r == [pc |-> "select", tok |-> tok, route |-> route, target |-> target,
               payload |-> {}, row |-> {}, user |-> {}, status |-> 0, error |-> "",
               ran |-> FALSE,
               sawValid |-> tok \in 1..Len(accessTokens) /\ accessTokens[tok].exp > now,
               sawActive |-> FALSE]
     IN IF tok = NoHeader THEN az' = AzDone(r, 401, "No valid authorization header")
        ELSE IF payload = {} THEN az' = AzDone(r, 401, "Invalid or expired token")
        ELSE LET id == (CHOOSE x \in payload : TRUE).id
             IN az' = [r EXCEPT !.payload = payload, !.row = SelectUser(id),
                                !.sawActive = id \in Users /\ users[id].isActive]
  /\ UNCHANGED <<tokVars, rlVars, http, audVars, profile, accessTokens, seen, unswept, pw>>

\* authMiddleware after the select, and the synchronous middlewares after it
AuthAdmit ==
  /\ az.pc = "select"
  /\ IF az.row = {} \/ ~(CHOOSE x \in az.row : TRUE).isActive
       THEN az' = AzDone(az, 401, "User not found or inactive")
       ELSE LET user == CHOOSE x \in az.payload : TRUE
                attached == [az EXCEPT !.user = {user}]
                denied == IF az.route = "documents" THEN requireSchoolAccess(user) ELSE {}
            IN IF denied # {}
                 THEN LET d == CHOOSE x \in denied : TRUE IN az' = AzDone(attached, d[1], d[2])
                 ELSE az' = [attached EXCEPT !.pc = "handler", !.ran = TRUE]
  /\ UNCHANGED <<tokVars, rlVars, http, audVars, profile, accessTokens, azLeft, seen, unswept, pw>>

\* GET /:id: the handler answers
GetById ==
  /\ az.pc = "handler"
  /\ LET res == GetByIdResponse(CHOOSE x \in az.user : TRUE, az.route, az.target)
     IN az' = AzDone(az, res[1], res[2])
  /\ UNCHANGED <<tokVars, rlVars, http, audVars, profile, accessTokens, azLeft, seen, unswept, pw>>

\* the response has been sent
AzReturn ==
  /\ az.pc = "done"
  /\ az' = [pc |-> "idle"]
  /\ UNCHANGED <<tokVars, rlVars, http, audVars, profile, accessTokens, azLeft, seen, unswept, pw>>

\* PUT /users/:id by the platform admin, changing role and school of user u
UpdateUser(u, role, school) ==
  /\ u # Admin
  /\ users[Admin].isActive
  /\ left > 0
  /\ left' = left - 1
  /\ profile' = [profile EXCEPT ![u] = [role |-> role, schoolId |-> school]]
  /\ UNCHANGED <<rlVars, http, audVars, users, refreshTokens, now, req, deactMark,
                 accessTokens, az, azLeft, seen, unswept, pw>>

InitAuthz ==
  /\ users = [u \in Users |-> [isActive |-> TRUE]]
  /\ refreshTokens = <<>>
  /\ now = 0
  /\ req = [p \in Procs |-> Idle]
  /\ left = MaxAdminOps
  /\ deactMark = [u \in Users |-> 0]
  /\ rateLimitStore = <<>>
  /\ rlNow = 0
  /\ rlLog = [k \in Keys |-> <<>>]
  /\ rlLeft = 0
  /\ http = [p \in Procs |-> NoRequest]
  /\ logBuffer = <<>>
  /\ auditTrail = <<>>
  /\ auditFault = FALSE
  /\ profile = Profiles
  /\ accessTokens = <<OrphanToken>>
  /\ az = [pc |-> "idle"]
  /\ azLeft = MaxAzReqs
  /\ seen = {}
  /\ unswept = <<>>
  /\ pw = NoPassword

NextAuthz ==
  \/ \E u \in Users : IssueToken(u)
  \/ \E tok \in NoHeader..(1 + MaxIssued), route \in Routes, target \in Targets :
       AuthStart(tok, route, target)
  \/ AuthAdmit
  \/ GetById
  \/ AzReturn
  \/ \E u \in Users, role \in Roles, school \in Schools \cup {NoSchool} : UpdateUser(u, role, school)
  \/ \E u \in Users : Deactivate(u)
  \/ \E u \in Users : Activate(u)
  \/ Tick

SpecAuthz == InitAuthz /\ [][NextAuthz]_vars

\* ------------------------------------------ one client's session, end to end
\* the access token generateAuthTokens returns with the refresh token at login
loginAccessToken(u, row, t) == generateToken(u, row, t)

\* what the client keeps of a response
Event(kind, tok, rt, via, status, ran, target, active, expiresIn) ==
  [kind |-> kind, tok |-> tok, rt |-> rt, via |-> via, at |-> now,
   status |-> status, ran |-> ran, target |-> target, active |-> active,
   expiresIn |-> expiresIn]

\* expiresIn of the response, in hours: POST /refresh answers 4 * 60 * 60
\* seconds; login answers what generateAuthTokens returns
ExpiresIn(op) ==
  IF op = "refresh" THEN REFRESH_EXPIRES_IN_HOURS ELSE ACCESS_TOKEN_DAYS * HoursPerDay

\* the statements of the token handlers between two awaits
HandlerStep(p) ==
  \/ CleanupSelect(p)
  \/ CleanupRevoke(p)
  \/ InsertToken(p)
  \/ VerifyUser(p)
  \/ VerifyRevoke(p)
  \/ VerifyUpdate(p)
  \/ RefreshUser(p)
  \/ RevokeAll(p)
  \/ RevokeOne(p)

\* c.json(...) of POST /login, /refresh and /logout: a successful login or
\* refresh carries a newly signed access token
SessionReturn(p) ==
  /\ req[p].pc = "done"
  /\ Set(p, Idle)
  /\ IF req[p].status = 200 /\ req[p].op \in {"login", "refresh"}
       THEN LET u == req[p].userId
                signed == IF req[p].op = "login"
                            THEN loginAccessToken(u, profile[u], now)
                            ELSE generateToken(u, profile[u], now)
            IN /\ accessTokens' = Append(accessTokens, signed)
               /\ seen' = seen \cup {Event("issued", Len(accessTokens) + 1, req[p].token,
                                           req[p].op, 200, FALSE, "", TRUE,
                                           ExpiresIn(req[p].op))}
       ELSE UNCHANGED <<accessTokens, seen>>
  /\ UNCHANGED <<rlVars, http, audVars, users, refreshTokens, now, deactMark, left,
                 profile, az, azLeft, unswept, pw>>

\* the response of the protected route reaches the client
SessionAzReturn ==
  /\ az.pc = "done"
  /\ az' = [pc |-> "idle"]
  /\ seen' = seen \cup {Event("answered", az.tok, 0, az.route, az.status, az.ran, az.target,
                              az.sawActive, 0)}
  /\ UNCHANGED <<tokVars, rlVars, http, audVars, profile, accessTokens, azLeft, unswept, pw>>

\* a day passes
DayPasses ==
  /\ now < MaxDays
  /\ now' = now + 1
  /\ UNCHANGED <<nonTokVars, users, refreshTokens, req, deactMark, left>>

Client == "u1"      \* the user whose client is followed
ClientTarget == "r1"  \* the document it asks for, one of its own school

\* the refresh tokens the client holds: its oldest, and those of this session
ClientTokens == {1} \cup ((Len(SeedTokens) + 1)..Len(refreshTokens))

SessionIdle == AllIdle /\ az.pc = "idle"

InitSession ==
  /\ users = [u \in Users |-> [isActive |-> TRUE]]
  /\ refreshTokens = SeedTokens
  /\ now = 0
  /\ req = [p \in Procs |-> Idle]
  /\ left = MaxSessionReqs
  /\ deactMark = [u \in Users |-> 0]
  /\ rateLimitStore = <<>>
  /\ rlNow = 0
  /\ rlLog = [k \in Keys |-> <<>>]
  /\ rlLeft = 0
  /\ http = [p \in Procs |-> NoRequest]
  /\ logBuffer = <<>>
  /\ auditTrail = <<>>
  /\ auditFault = FALSE
  /\ profile = Profiles
  /\ accessTokens = <<>>
  /\ az = [pc |-> "idle"]
  /\ azLeft = MaxSessionGets
  /\ seen = {}
  /\ unswept = <<>>
  /\ pw = NoPassword

\* the client sends one request at a time and waits for the answer
NextSession ==
  \/ SessionIdle /\ \E p \in Procs, ok \in BOOLEAN : LoginFindUser(p, Client, ok)
  \/ SessionIdle /\ \E p \in Procs, t \in ClientTokens : VerifyLookup(p, "refresh", t, FALSE)
  \/ SessionIdle /\ \E p \in Procs, t \in ClientTokens, all \in BOOLEAN :
                      VerifyLookup(p, "logout", t, all)
  \/ SessionIdle /\ Sweep
  \/ SessionIdle /\ \E tok \in 0..Len(accessTokens) : AuthStart(tok, "documents", ClientTarget)
  \/ SessionIdle /\ DayPasses
  \/ SessionIdle /\ \E u \in Users : Deactivate(u)
  \/ \E p \in Procs : HandlerStep(p)
  \/ \E p \in Procs : SessionReturn(p)
  \/ AuthAdmit
  \/ GetById
  \/ SessionAzReturn

SpecSession == InitSession /\ [][NextSession]_vars

\* ------------------------------------- the refresh token store, call by call
\* a row with its updatedAt column
NewRow(u, exp, t, raw) ==
  [userId |-> u, tokenHash |-> hashRefreshToken(raw), expiresAt |-> exp,
   isRevoked |-> FALSE, createdAt |-> t, updatedAt |-> t]

\* .set({ ..., updatedAt: new Date() }) on the rows in S
Stamped(toks, S, t) ==
  [i \in Ids(toks) |-> IF i \in S THEN [toks[i] EXCEPT !.updatedAt = t] ELSE toks[i]]

\* revokeRefreshToken(token): the table after the call and the value returned
revokeRefreshToken(toks, token, t) ==
  LET M == RevokeMatch(toks, hashRefreshToken(token))
  IN <<Stamped(SetRevoked(toks, M), M, t), M # {}>>

\* revokeAllUserTokens(userId)
revokeAllUserTokens(toks, u, t) ==
  LET S == SelectUserActive(toks, u)
  IN <<Stamped(SetRevoked(toks, S), S, t), Cardinality(S)>>

\* cleanupExpiredTokens()
cleanupExpiredTokens(toks, t) ==
  LET M == ExpiredMatch(toks, t)
  IN <<Stamped(SetRevoked(toks, M), M, t), Cardinality(M)>>

\* verifyRefreshToken(token)
verifyRefreshToken(toks, token, t) ==
  LET found == SelectValid(toks, hashRefreshToken(token), t)
  IN IF found = {} THEN <<toks, FALSE, NoUser>>
     ELSE LET i == CHOOSE x \in found : TRUE
          IN IF ~users[toks[i].userId].isActive
               THEN <<revokeRefreshToken(toks, token, t)[1], FALSE, NoUser>>
               ELSE <<Stamped(toks, {i}, t), TRUE, toks[i].userId>>

\* the slices cleanupOldTokens(userId) may revoke: the oldest surplus rows
cleanupOldTokens(toks, u) ==
  LET active == SelectUserActive(toks, u)
      k == SurplusCount(Cardinality(active))
      Before(c) == {i \in active : toks[i].createdAt < c}
      UpTo(c) == {i \in active : toks[i].createdAt <= c}
  IN IF k = 0 THEN {{}}
     ELSE LET cut == CHOOSE c \in {toks[i].createdAt : i \in active} :
                       Cardinality(Before(c)) < k /\ k <= Cardinality(UpTo(c))
          IN {Before(cut) \cup T :
                T \in {X \in SUBSET (UpTo(cut) \ Before(cut)) :
                         Cardinality(X) = k - Cardinality(Before(cut))}}

\* createRefreshToken(userId), cleanupOldTokens having revoked the slice S
createRefreshToken(toks, u, S, t) ==
  Append(Stamped(SetRevoked(toks, S), S, t), NewRow(u, t + EXPIRY_DAYS, t, Len(toks) + 1))

\* the rows of S that have not expired
UnexpiredOf(toks, S, t) == {i \in S : toks[i].expiresAt > t}

\* what the caller got back: slot p1 for the store, p2 for the unswept one;
\* rec tells the calls apart
Result(op, token, u, valid, count, evicted) ==
  [Idle EXCEPT !.pc = "done", !.op = op, !.token = token, !.userId = u,
               !.isValid = valid, !.count = count, !.toRevoke = evicted,
               !.rec = left]

Called ==
  /\ left > 0
  /\ left' = left - 1
  /\ UNCHANGED <<rlVars, http, audVars, profile, accessTokens, az, azLeft, seen,
                 users, now, deactMark, pw>>

CallCreate(u) ==
  /\ users[u].isActive
  /\ \E S \in cleanupOldTokens(refreshTokens, u), S0 \in cleanupOldTokens(unswept, u) :
       LET e == UnexpiredOf(refreshTokens, S, now)
           e0 == UnexpiredOf(unswept, S0, now)
       IN /\ \/ e = e0
             \/ \A T \in cleanupOldTokens(unswept, u) : UnexpiredOf(unswept, T, now) # e
             \/ \A T \in cleanupOldTokens(refreshTokens, u) :
                  UnexpiredOf(refreshTokens, T, now) # e0
          /\ refreshTokens' = createRefreshToken(refreshTokens, u, S, now)
          /\ unswept' = createRefreshToken(unswept, u, S0, now)
          /\ req' = [p1 |-> Result("create", Len(refreshTokens) + 1, u, TRUE, 0, e),
                     p2 |-> Result("create", Len(unswept) + 1, u, TRUE, 0, e0)]
  /\ Called

CallVerify(token) ==
  /\ LET r == verifyRefreshToken(refreshTokens, token, now)
         r0 == verifyRefreshToken(unswept, token, now)
     IN /\ refreshTokens' = r[1]
        /\ unswept' = r0[1]
        /\ req' = [p1 |-> Result("verify", token, r[3], r[2], 0, {}),
                   p2 |-> Result("verify", token, r0[3], r0[2], 0, {})]
  /\ Called

CallRevoke(token) ==
  /\ LET r == revokeRefreshToken(refreshTokens, token, now)
         r0 == revokeRefreshToken(unswept, token, now)
     IN /\ refreshTokens' = r[1]
        /\ unswept' = r0[1]
        /\ req' = [p1 |-> Result("revoke", token, NoUser, r[2],
                                 IF req["p1"].op = "revoke" /\ req["p1"].token = token
                                   THEN req["p1"].count + 1 ELSE 1, {}),
                   p2 |-> Result("revoke", token, NoUser, r0[2], 0, {})]
  /\ Called

CallRevokeAll(u) ==
  /\ LET r == revokeAllUserTokens(refreshTokens, u, now)
         r0 == revokeAllUserTokens(unswept, u, now)
     IN /\ refreshTokens' = r[1]
        /\ unswept' = r0[1]
        /\ req' = [p1 |-> Result("revokeAll", 0, u, TRUE, r[2], {}),
                   p2 |-> Result("revokeAll", 0, u, TRUE, r0[2], {})]
  /\ Called

\* the periodic sweep runs in the store only
CallSweep ==
  /\ LET r == cleanupExpiredTokens(refreshTokens, now)
     IN /\ refreshTokens' = r[1]
        /\ req' = [p1 |-> Result("sweep", 0, NoUser, TRUE, r[2], {}),
                   p2 |-> Result("sweep", 0, NoUser, TRUE, 0, {})]
  /\ UNCHANGED unswept
  /\ Called

\* the table after MAX_TOKENS_PER_USER - 1 earlier logins of u1, one a day
SeedRows ==
  [i \in 1..(MAX_TOKENS_PER_USER - 1) |->
     LET day == i - (MAX_TOKENS_PER_USER - 1) IN NewRow("u1", day + EXPIRY_DAYS, day, i)]

InitStore ==
  /\ users = [u \in Users |-> [isActive |-> TRUE]]
  /\ refreshTokens = SeedRows
  /\ unswept = SeedRows
  /\ pw = NoPassword
  /\ now = 0
  /\ req = [p \in Procs |-> Idle]
  /\ left = MaxCalls
  /\ deactMark = [u \in Users |-> 0]
  /\ rateLimitStore = <<>>
  /\ rlNow = 0
  /\ rlLog = [k \in Keys |-> <<>>]
  /\ rlLeft = 0
  /\ http = [p \in Procs |-> NoRequest]
  /\ logBuffer = <<>>
  /\ auditTrail = <<>>
  /\ auditFault = FALSE
  /\ profile = Profiles
  /\ accessTokens = <<>>
  /\ az = [pc |-> "idle"]
  /\ azLeft = 0
  /\ seen = {}

NextStore ==
  \/ CallCreate(Client)
  \/ \E token \in 0..Len(refreshTokens) : CallVerify(token)
  \/ \E token \in 0..Len(refreshTokens) : CallRevoke(token)
  \/ CallRevokeAll(Client)
  \/ CallSweep
  \/ Deactivate(Client)
  \/ Activate(Client)
  \/ Tick

SpecStore == InitStore /\ [][NextStore]_vars

\* ------------------------------------------------------- password validation
\* a password is the sequence of its characters
Alphabet == <<"a", "b", "c", "d", "e", "f", "g", "h", "i", "j", "k", "l", "m", "n", "o", "p", "q", "r", "s", "t", "u", "v", "w", "x", "y", "z">>
Capitals == <<"A", "B", "C", "D", "E", "F", "G", "H", "I", "J", "K", "L", "M", "N", "O", "P", "Q", "R", "S", "T", "U", "V", "W", "X", "Y", "Z">>
Numerals == <<"0", "1", "2", "3", "4", "5", "6", "7", "8", "9">>

Range(f) == {f[i] : i \in DOMAIN f}
IsLower(c) == c \in Range(Alphabet)
IsUpper(c) == c \in Range(Capitals)
IsDigit(c) == c \in Range(Numerals)

\* String.prototype.toLowerCase, character by character
LowerChar(c) ==
  IF IsUpper(c) THEN Alphabet[CHOOSE i \in DOMAIN Capitals : Capitals[i] = c] ELSE c

toLowerCase(p) == [i \in DOMAIN p |-> LowerChar(p[i])]

\* the regular expression /word/ finds a match in p
Contains(p, word) ==
  \E i \in 0..(Len(p) - Len(word)) : \A j \in DOMAIN word : p[i + j] = word[j]

\* three successive entries of seq, in a row, somewhere in p
ContainsRun(p, seq) ==
  \E k \in 1..(Len(seq) - 2) : Contains(p, <<seq[k], seq[k + 1], seq[k + 2]>>)

\* /(.)\1{2,}/
Repeats(p) == \E i \in 1..(Len(p) - 2) : p[i] = p[i + 1] /\ p[i + 1] = p[i + 2]

HasSpecial(p) == \E i \in DOMAIN p : ~IsLower(p[i]) /\ ~IsUpper(p[i]) /\ ~IsDigit(p[i])

\* the alternatives of the anchored pattern of passwordSchema
SchemaWeak ==
  {<<"p", "a", "s", "s", "w", "o", "r", "d">>,
   <<"1", "2", "3", "4", "5", "6">>,
   <<"q", "w", "e", "r", "t", "y">>,
   <<"a", "d", "m", "i", "n">>,
   <<"l", "e", "t", "m", "e", "i", "n">>,
   <<"w", "e", "l", "c", "o", "m", "e">>,
   <<"m", "o", "n", "k", "e", "y">>,
   <<"d", "r", "a", "g", "o", "n">>}

COMMON_WEAK_PASSWORDS ==
  {<<"p", "a", "s", "s", "w", "o", "r", "d">>,
   <<"1", "2", "3", "4", "5", "6">>,
   <<"p", "a", "s", "s", "w", "o", "r", "d", "1", "2", "3">>,
   <<"a", "d", "m", "i", "n">>,
   <<"q", "w", "e", "r", "t", "y">>,
   <<"l", "e", "t", "m", "e", "i", "n">>,
   <<"w", "e", "l", "c", "o", "m", "e">>,
   <<"m", "o", "n", "k", "e", "y">>,
   <<"d", "r", "a", "g", "o", "n">>,
   <<"1", "2", "3", "4", "5", "6", "7", "8", "9">>,
   <<"a", "b", "c", "1", "2", "3">>,
   <<"p", "a", "s", "s", "w", "o", "r", "d", "1">>,
   <<"i", "l", "o", "v", "e", "y", "o", "u">>,
   <<"p", "r", "i", "n", "c", "e", "s", "s">>,
   <<"a", "d", "m", "i", "n", "1", "2", "3">>,
   <<"w", "e", "l", "c", "o", "m", "e", "1", "2", "3">>,
   <<"1", "2", "3", "4", "5", "6", "7", "8", "9", "0">>,
   <<"p", "a", "s", "s", "w", "o", "r", "d", "@", "1", "2", "3">>,
   <<"q", "w", "e", "r", "t", "y", "1", "2", "3">>,
   <<"a", "d", "m", "i", "n", "a", "d", "m", "i", "n">>}

KeyboardPatterns ==
  {<<"q", "w", "e", "r">>,
   <<"a", "s", "d", "f">>,
   <<"z", "x", "c", "v">>,
   <<"1", "2", "3", "4">>,
   <<"q", "w", "e", "r", "t", "y">>,
   <<"a", "s", "d", "f", "g", "h">>,
   <<"z", "x", "c", "v", "b", "n">>}

\* the messages of the checks of passwordSchema that fail, in order
passwordSchema(p) ==
  (IF Len(p) < MIN_LENGTH THEN <<"Password must be at least 12 characters long">> ELSE <<>>)
  \o (IF Len(p) > MAX_LENGTH THEN <<"Password must be less than 128 characters">> ELSE <<>>)
  \o (IF \E i \in DOMAIN p : IsLower(p[i]) THEN <<>>
      ELSE <<"Password must contain at least one lowercase letter">>)
  \o (IF \E i \in DOMAIN p : IsUpper(p[i]) THEN <<>>
      ELSE <<"Password must contain at least one uppercase letter">>)
  \o (IF \E i \in DOMAIN p : IsDigit(p[i]) THEN <<>>
      ELSE <<"Password must contain at least one number">>)
  \o (IF HasSpecial(p) THEN <<>>
      ELSE <<"Password must contain at least one special character">>)
  \o (IF Repeats(p)
        THEN <<"Password must not contain more than 2 consecutive identical characters">>
        ELSE <<>>)
  \o (IF toLowerCase(p) \in SchemaWeak THEN <<"Password cannot be a common weak password">>
      ELSE <<>>)

isCommonWeakPassword(p) == toLowerCase(p) \in COMMON_WEAK_PASSWORDS

\* hasWeakPatterns(password).patterns
hasWeakPatterns(p) ==
  (IF ContainsRun(toLowerCase(p), Alphabet) THEN <<"Sequential letters detected">> ELSE <<>>)
  \o (IF ContainsRun(p, Numerals) THEN <<"Sequential numbers detected">> ELSE <<>>)
  \o (IF \E w \in KeyboardPatterns : Contains(toLowerCase(p), w)
        THEN <<"Keyboard pattern detected">> ELSE <<>>)
  \o (IF \E i \in 1..(Len(p) - 3) :
           /\ <<p[i], p[i + 1]>> \in {<<"1", "9">>, <<"2", "0">>}
           /\ IsDigit(p[i + 2]) /\ IsDigit(p[i + 3])
        THEN <<"Year pattern detected">> ELSE <<>>)

\* checkPasswordStrength(password).score
checkPasswordStrength(p) ==
  (IF Len(p) >= 12 THEN 25 ELSE IF Len(p) >= 8 THEN 15 ELSE 0)
  + (IF \E i \in DOMAIN p : IsLower(p[i]) THEN 10 ELSE 0)
  + (IF \E i \in DOMAIN p : IsUpper(p[i]) THEN 10 ELSE 0)
  + (IF \E i \in DOMAIN p : IsDigit(p[i]) THEN 10 ELSE 0)
  + (IF HasSpecial(p) THEN 15 ELSE 0)
  + (IF Len(p) >= 16 THEN 10 ELSE 0)
  + (IF HasSpecial(p) /\ Len(p) >= 12 THEN 10 ELSE 0)
  + (IF ~Repeats(p) THEN 10 ELSE 0)

\* validatePassword(password)
validatePassword(p) ==
  LET errors ==
        passwordSchema(p)
        \o (IF isCommonWeakPassword(p)
              THEN <<"Password is too common and easily guessable">> ELSE <<>>)
        \o hasWeakPatterns(p)
        \o (IF checkPasswordStrength(p) < FAIR_SCORE
              THEN <<"Password is too weak - please choose a stronger password">>
              ELSE <<>>)
  IN [isValid |-> errors = <<>>, errors |-> errors, score |-> checkPasswordStrength(p)]

\* the passwords tried: a word, then digits or signs, then an ending
Words == {<<"p", "a", "s", "s", "w", "o", "r", "d">>,
          <<"T", "r", "0", "u", "b", "4", "d", "o", "r">>,
          <<"Z", "k", "7", "p", "L", "w", "9">>,
          <<"a", "d", "m", "i", "n">>,
          <<"Q", "w", "e", "r", "t", "y">>}
Middles == {<<>>, <<"1", "2", "3">>, <<"&", "3">>, <<"2", "0", "2", "4">>, <<"a", "a", "a">>}
Endings == {<<>>, <<"x", "y", "z", "!">>, <<"!">>, <<"#", "V", "m">>, <<"H", "q", "$", "e">>}

Password123 == <<"p", "a", "s", "s", "w", "o", "r", "d", "1", "2", "3">>
Troubador == <<"T", "r", "0", "u", "b", "4", "d", "o", "r", "&", "3", "x", "y", "z", "!">>

Validate ==
  /\ pw.pc = "given"
  /\ pw' = [pc |-> "validated", password |-> pw.password,
            result |-> validatePassword(pw.password)]
  /\ UNCHANGED <<tokVars, rlVars, http, audVars, profile, accessTokens, az, azLeft,
                 seen, unswept>>

InitPassword ==
  /\ users = [u \in Users |-> [isActive |-> TRUE]]
  /\ refreshTokens = <<>>
  /\ now = 0
  /\ req = [p \in Procs |-> Idle]
  /\ left = 0
  /\ deactMark = [u \in Users |-> 0]
  /\ rateLimitStore = <<>>
  /\ rlNow = 0
  /\ rlLog = [k \in Keys |-> <<>>]
  /\ rlLeft = 0
  /\ http = [p \in Procs |-> NoRequest]
  /\ logBuffer = <<>>
  /\ auditTrail = <<>>
  /\ auditFault = FALSE
  /\ profile = Profiles
  /\ accessTokens = <<>>
  /\ az = [pc |-> "idle"]
  /\ azLeft = 0
  /\ seen = {}
  /\ unswept = <<>>
  /\ \E w \in Words, m \in Middles, e \in Endings :
       pw = [pc |-> "given", password |-> w \o m \o e]

NextPassword == Validate

SpecPassword == InitPassword /\ [][NextPassword]_vars

\* ------------------------------------------------------------------ claims
Verifying(p) == req[p].op \in {"refresh", "logout"}

\* verifyRefreshToken has returned to the handler of slot p
VerifyReturned(p) == Verifying(p) /\ req[p].pc \notin {"verifyUser", "verifyRevoke", "verifyUpdate"}

NonRevokedOf(u) ==
  {i \in Ids(refreshTokens) : refreshTokens[i].userId = u /\ ~refreshTokens[i].isRevoked}

\* C1: in every reachable state, concurrent logins included, each user owns at
\* most MAX_TOKENS_PER_USER refresh-token records that are non-revoked and
\* unexpired.
C1_SessionCap == \A u \in Users : Cardinality(LiveOf(u)) <= MAX_TOKENS_PER_USER

\* no step resets isRevoked, moves expiresAt, drops a record or turns the clock back
C2_Monotone ==
  /\ now' >= now
  /\ Len(refreshTokens') >= Len(refreshTokens)
  /\ \A i \in Ids(refreshTokens) :
       /\ refreshTokens[i].isRevoked => refreshTokens'[i].isRevoked
       /\ refreshTokens'[i].expiresAt = refreshTokens[i].expiresAt

\* a verify whose lookup met the record revoked or expired does not return valid
C2_DeadStaysDead ==
  \A p \in Procs :
    (Verifying(p) /\ ~req[p].sawValid) =>
       /\ ~req[p].isValid
       /\ req[p].pc \in {"revokeOne", "done"}
       /\ req[p].op = "refresh" => req[p].status = 401

\* C2: a revoked or expired refresh token never verifies again: no step resets
\* isRevoked, moves expiresAt or turns the clock back, and a verify whose lookup
\* finds the record revoked or expired never returns valid.
C2_RevokedNeverVerifies == [][C2_Monotone]_vars /\ []C2_DeadStaysDead

C2_Witness ==
  \E p \in Procs :
    /\ req[p].op = "refresh" /\ req[p].pc = "done" /\ req[p].status = 401
    /\ req[p].token \in Ids(refreshTokens)
    /\ refreshTokens[req[p].token].isRevoked
    /\ refreshTokens[req[p].token].expiresAt > now
    /\ ~req[p].sawValid

\* the step in which POST /refresh answers
C3_RefreshAnswer ==
  \A p \in Procs :
    (req'[p].op = "refresh" /\ req'[p].pc = "done" /\ req[p].pc # "done") =>
       /\ req'[p].status \in {200, 401}
       /\ req'[p].status = 200 =>
            /\ req'[p].sawValid
            /\ OwnerActive(req'[p].token)

\* C3: POST /refresh answers 200 with an access token only if its lookup found
\* the record non-revoked and unexpired and the owning user is active when the
\* token is issued; every other answer is a 401.
C3_RefreshOnlyIfValid == [][C3_RefreshAnswer]_vars

C3_Witness ==
  \E p \in Procs :
    /\ req[p].op = "refresh" /\ req[p].pc = "done" /\ req[p].status = 200
    /\ req[p].sawValid

\* the step in which verifyRefreshToken returns { isValid: true }
C4_ValidReturn ==
  \A p \in Procs :
    (req[p].pc = "verifyUpdate" /\ req'[p].pc # "verifyUpdate") =>
       ~refreshTokens[req[p].token].isRevoked

\* C4: no verifyRefreshToken call returns isValid = true once the record has
\* been revoked: lookup and update behave as one atomic step.
C4_AtomicVerify == [][C4_ValidReturn]_vars

\* C5: once a user has been deactivated, no refresh token issued before the
\* deactivation verifies successfully again, also after a reactivation.
C5_DeactivationRevokes ==
  \A p \in Procs : (Verifying(p) /\ req[p].sawDeact) => ~req[p].isValid

\* a step of cleanupOldTokens' loop revokes a record of the user, and none of
\* the user's records created earlier stays non-revoked
C6_EvictsOldest ==
  \A p \in Procs :
    req[p].pc = "cleanupRevoke" =>
      \A i \in Ids(refreshTokens) :
        (~refreshTokens[i].isRevoked /\ refreshTokens'[i].isRevoked) =>
           /\ refreshTokens[i].userId = req[p].userId
           /\ \A j \in Ids(refreshTokens) :
                (refreshTokens[j].userId = req[p].userId /\ ~refreshTokens'[j].isRevoked)
                   => refreshTokens[j].createdAt >= refreshTokens[i].createdAt

C6_CapHolds == \A u \in Users : Cardinality(NonRevokedOf(u)) <= MAX_TOKENS_PER_USER

\* C6: with logins handled one after the other, at most MAX_TOKENS_PER_USER
\* records of a user are non-revoked, and the cap revokes the oldest: no record
\* of the user created earlier than an evicted one stays non-revoked.
C6_SequentialCap == []C6_CapHolds /\ [][C6_EvictsOldest]_vars

C6_Witness ==
  /\ AllIdle
  /\ Cardinality({i \in Ids(refreshTokens) : refreshTokens[i].userId = "u1"})
       = MAX_TOKENS_PER_USER + 1
  /\ NonRevokedOf("u1") = 2..(MAX_TOKENS_PER_USER + 1)

\* C7: verifyRefreshToken of a non-revoked, unexpired token whose owner is
\* inactive returns invalid, and the record is revoked when it returns.
C7_InactiveOwner ==
  \A p \in Procs :
    (VerifyReturned(p) /\ req[p].sawValid /\ req[p].sawInactive) =>
       /\ ~req[p].isValid
       /\ refreshTokens[req[p].token].isRevoked
       /\ req[p].op = "refresh" => req[p].status = 401

C7_Witness ==
  \E p \in Procs :
    /\ req[p].op = "refresh" /\ req[p].pc = "done"
    /\ req[p].sawValid /\ req[p].sawInactive /\ req[p].sawDeact
    /\ refreshTokens[req[p].token].isRevoked

\* POST /logout with logoutAll and a valid token has answered
LogoutAllDone(p) ==
  /\ req[p].op = "logout" /\ req[p].logoutAll /\ req[p].isValid
  /\ req[p].pc = "done"

\* C8 as stated: logoutAll reports, and revokes, exactly the k sessions of the
\* user that were active (non-revoked and unexpired).
C8_CountsActiveSessions ==
  \A p \in Procs : LogoutAllDone(p) => req[p].count = req[p].sawLive

\* the step of revokeAllUserTokens
C8_RevokeAllStep ==
  \A p \in Procs :
    req[p].pc = "revokeAll" =>
      LET u == refreshTokens[req[p].token].userId IN
        /\ req'[p].count = Cardinality(NonRevokedOf(u))
        /\ req'[p].status = 200
        /\ \A i \in Ids(refreshTokens) :
             IF refreshTokens[i].userId = u
               THEN refreshTokens'[i].isRevoked
               ELSE refreshTokens'[i] = refreshTokens[i]

\* a refresh that presented a record now revoked was answered 401
C8_RefreshAfter ==
  \A p \in Procs :
    (req[p].op = "refresh" /\ req[p].pc = "done" /\ req[p].token \in Ids(refreshTokens)
       /\ refreshTokens[req[p].token].isRevoked) => req[p].status = 401

\* C8, amended: logoutAll presented with a valid token revokes exactly the
\* user's non-revoked records (expired ones not yet revoked included) and no
\* record of another user, reports their number, and a refresh with a revoked
\* token gets 401.
C8_LogoutAll == [][C8_RevokeAllStep]_vars /\ []C8_RefreshAfter

C8_Witness ==
  \E p \in Procs :
    /\ LogoutAllDone(p) /\ req[p].count = 3 /\ req[p].sawLive = 3
    /\ \E i \in Ids(refreshTokens) :
         refreshTokens[i].userId = "u2" /\ ~refreshTokens[i].isRevoked

\* the window an attempt falls in, as the claim counts them: a window opens with
\* the first attempt and with every attempt made after the open one has elapsed
RECURSIVE RefStart(_, _)
RefStart(log, n) ==
  IF n = 1 THEN log[1].at
  ELSE LET s == RefStart(log, n - 1)
       IN IF log[n].at > s + WindowTicks THEN log[n].at ELSE s

\* the position of attempt n among the attempts of its window
RefRank(log, n) == Cardinality({m \in 1..n : RefStart(log, m) = RefStart(log, n)})

\* C9: for every key, an attempt is admitted if it is among the first LOGIN_MAX
\* of its window and rejected (429) otherwise; the first attempt after the
\* window has elapsed opens a new window, and rejected attempts do not extend it.
C9_FixedWindowLimit ==
  \A k \in Keys : \A n \in 1..Len(rlLog[k]) :
    rlLog[k][n].admitted <=> RefRank(rlLog[k], n) <= LOGIN_MAX

C9_Witness ==
  \E k \in Keys :
    /\ Len(rlLog[k]) >= LOGIN_MAX + 2
    /\ ~rlLog[k][LOGIN_MAX + 1].admitted
    /\ rlLog[k][LOGIN_MAX + 1].at = rlLog[k][1].at
    /\ rlLog[k][LOGIN_MAX + 2].admitted
    /\ rlLog[k][LOGIN_MAX + 2].at > rlLog[k][1].at + WindowTicks

AdmittedIn(log, S) == {n \in 1..Len(log) : log[n].admitted /\ log[n].at \in S}

InWindow(k, r) == {n \in 1..Len(rlLog[k]) : rlLog[k][n].reset = r}

\* C11: whatever the interleaving of the requests of one key, the stored count
\* of the key's window is the number of requests that entered the limiter in
\* that window (no increment is lost), and at most max of them are admitted.
C11_AtomicCount ==
  \A k \in Keys :
    /\ k \in DOMAIN rateLimitStore =>
         rateLimitStore[k].count = Cardinality(InWindow(k, rateLimitStore[k].resetTime))
    /\ \A n \in 1..Len(rlLog[k]) :
         Cardinality({m \in InWindow(k, rlLog[k][n].reset) : rlLog[k][m].admitted})
           <= LOGIN_MAX

\* two requests of one key are in flight at once, one admitted and one
\* rejected, in a window that counted more than max requests
C11_Witness ==
  \E k \in Keys :
    /\ http["p1"].pc = "next" /\ http["p1"].key = k
    /\ http["p2"].pc = "thrown" /\ http["p2"].key = k
    /\ k \in DOMAIN rateLimitStore
    /\ rateLimitStore[k].count > LOGIN_MAX

\* a request the rate limiter rejected, with its response ready to be sent
Rejected(p) == http[p].pc = "respond" /\ http[p].intended = 429

\* C12: a request rejected by the rate limiter (429) never reaches its route
\* handler, and an audit entry of kind rate_limit_exceeded has been recorded
\* for it by the time its response is sent.
C12_RejectedIsAudited ==
  \A p \in Procs :
    Rejected(p) =>
      /\ ~http[p].handled
      /\ req[p].pc = "idle"
      /\ "rate_limit_exceeded" \in http[p].logged

\* where a plaintext password or a raw token secret enters a request or leaves
\* the server: the request body's password fields and refreshToken, the
\* Authorization header, the tokens a login or refresh returns
SecretSources ==
  {"body.password", "body.currentPassword", "body.newPassword", "body.refreshToken",
   "header.authorization", "response.accessToken", "response.refreshToken"}

\* the error messages the code writes as string literals
LiteralMessages ==
  {"", "User not found", "Account is inactive", "Invalid password", "Invalid refresh token"}

\* C13: no audit entry written for any sequence of login, refresh, logout,
\* change-password or failing requests holds a plaintext password or a raw
\* token secret: each field of its details comes from a source that is not a
\* secret, and its errorMessage is one of the code's literals.
C13_NoSecretInAudit ==
  \A i \in 1..Len(auditTrail) :
    /\ \A d \in auditTrail[i].details : d[2] \notin SecretSources
    /\ auditTrail[i].errorMessage \in LiteralMessages

\* the trail holds the entries of a successful login, of a failed login, of a
\* logout and of a change of password
C13_Witness ==
  /\ \E i \in 1..Len(auditTrail) :
       auditTrail[i].eventType = "login_success" /\ <<"email", "body.email">> \in auditTrail[i].details
  /\ \E i \in 1..Len(auditTrail) : auditTrail[i].errorMessage = "Invalid password"
  /\ \E i \in 1..Len(auditTrail) : auditTrail[i].eventType = "logout"
  /\ \E i \in 1..Len(auditTrail) : auditTrail[i].eventType = "password_change"

C15_AppendOnly ==
  \A i \in 1..Len(auditTrail) :
    \E j \in 1..Len(logBuffer) : logBuffer[j] = auditTrail[i]

AuthEvents == {"login_success", "login_failed", "logout", "token_refresh", "password_change"}

\* C16: whichever component emits it, an entry recording a failed
\* authentication event (login, token refresh, logout or password change with
\* success = false) has severity high, and an entry recording a completed
\* logout has severity low.
C16_SeverityRules ==
  \A i \in 1..Len(auditTrail) :
    LET e == auditTrail[i] IN
      /\ (e.eventType \in AuthEvents /\ ~e.success) => e.severity = "high"
      /\ (e.eventType = "logout" /\ e.success) => e.severity = "low"

\* C17: authMiddleware runs the handler only if the bearer token verified
\* (signed by this server and not expired) and the subject user existed and
\* was active when the middleware looked; every other request is answered 401
\* without the handler having run.
C17_AdmitOnlyValidActive ==
  /\ az.pc \in {"handler", "done"} /\ az.ran => az.sawValid /\ az.sawActive
  /\ az.pc = "done" /\ ~(az.sawValid /\ az.sawActive) => az.status = 401 /\ ~az.ran

\* a request was admitted while its user was active, and the user has been
\* deactivated before the handler answered
C17_Witness ==
  /\ az.pc = "handler"
  /\ az.ran
  /\ az.sawValid
  /\ az.sawActive
  /\ \E x \in az.user : ~users[x.id].isActive

\* C18: for every request authMiddleware admits, the identity attached to the
\* request context has the role and the school that the subject user's row had
\* when the middleware reloaded it, also when role or school were changed after
\* the token was signed.
C18_AttachedIsReloaded ==
  az.pc \in {"handler", "done"} /\ az.ran =>
    \A x \in az.user, r \in az.row :
      x.id = r.id /\ x.role = r.role /\ x.schoolId = r.schoolId

\* C19: every request that passed requireSchoolAccess and was served was made
\* by a super_admin or by a caller whose school, in the users table when the
\* request was authenticated, is the school of the resource.
C19_TenantScope ==
  az.pc = "done" /\ az.route = "documents" /\ az.ran /\ az.status = 200 =>
    \A r \in az.row : r.role = "super_admin" \/ r.schoolId = ResourceSchool[az.target]

\* C20: a caller without access gets, for an existing resource of another
\* school, the response (status and body) it gets for an id that no row has.
C20_NoExistenceLeak ==
  az.pc = "done" /\ az.ran /\ az.target # Missing /\ az.status # 200 =>
    \A x \in az.user :
      <<az.status, az.error>> = GetByIdResponse(x, az.route, Missing)

\* C21: every failed login is answered with the same status and message,
\* 401 "Invalid credentials", whether the email is unknown, the password is
\* wrong or the account is inactive.
C21_FailedLoginNormalized ==
  \A p \in Procs :
    req[p].op = "login" /\ req[p].pc = "done" /\ req[p].status # 200 =>
      req[p].status = 401 /\ req[p].error = "Invalid credentials"

\* the token of an answer was issued to the client at login or refresh
IssuedAs(e, i) == i \in seen /\ i.kind = "issued" /\ i.tok = e.tok

\* C22: an access token issued at login or refresh authorizes a protected
\* request of an active user while it is unexpired; once its expiry has passed
\* the same request is answered 401; a refresh with a refresh token that is
\* still valid succeeds, and carries a new access token.
C22_SessionLifecycle ==
  /\ \A e \in seen : \A i \in seen :
       e.kind = "answered" /\ IssuedAs(e, i) =>
         IF e.at >= i.at + ACCESS_TOKEN_DAYS
           THEN e.status = 401 /\ ~e.ran
           ELSE e.active => e.ran
  /\ \A p \in Procs :
       req[p].op = "refresh" /\ req[p].pc = "done" /\ req[p].sawValid /\ ~req[p].sawInactive
         => req[p].status = 200

\* the whole lifecycle on one route: login, an authorized request, 401 after
\* the expiry, refresh with the same refresh token, an authorized request
C22_Witness ==
  \E i1, a1, x1, i2, a2 \in seen :
    /\ i1.kind = "issued" /\ i1.via = "login"
    /\ a1.kind = "answered" /\ a1.tok = i1.tok /\ a1.status = 200 /\ a1.at = i1.at
    /\ x1.kind = "answered" /\ x1.tok = i1.tok /\ x1.status = 401 /\ x1.target = a1.target
    /\ i2.kind = "issued" /\ i2.via = "refresh" /\ i2.rt = i1.rt /\ i2.at >= x1.at
    /\ a2.kind = "answered" /\ a2.tok = i2.tok /\ a2.status = 200 /\ a2.target = a1.target

\* a call of the store function op has just returned
JustCalled(op) == req'["p1"].rec # req["p1"].rec /\ req'["p1"].op = op

\* the row keeps every column but updatedAt
SameButStamp(a, b) == [a EXCEPT !.updatedAt = 0] = [b EXCEPT !.updatedAt = 0]

\* what one call of revokeRefreshToken does: the row with the token's hash is
\* revoked, no other row changes, the value returned tells whether a row with
\* that hash exists
C23_RevokeOnce ==
  JustCalled("revoke") =>
    LET t == req'["p1"].token IN
      /\ Len(refreshTokens') = Len(refreshTokens)
      /\ \A i \in Ids(refreshTokens) :
           IF refreshTokens[i].tokenHash = hashRefreshToken(t)
             THEN /\ refreshTokens'[i].isRevoked
                  /\ SameButStamp(refreshTokens'[i], [refreshTokens[i] EXCEPT !.isRevoked = TRUE])
             ELSE refreshTokens'[i] = refreshTokens[i]
      /\ req'["p1"].isValid <=> (\E i \in Ids(refreshTokens) :
                                    refreshTokens[i].tokenHash = hashRefreshToken(t))

\* a second call in a row, for the same token
RevokedAgain ==
  /\ JustCalled("revoke")
  /\ req["p1"].op = "revoke"
  /\ req["p1"].token = req'["p1"].token

\* C23 as stated: revokeRefreshToken is idempotent, the second of two calls
\* for one token leaves the store in the state the first call left it in; each
\* call returns true iff a record with the token's hash exists.
C23_RevokeIdempotent ==
  [][C23_RevokeOnce /\ (RevokedAgain => refreshTokens' = refreshTokens)]_vars

\* C23 amended: the second of two calls for one token leaves every column of
\* every record as the first call left it, except the updatedAt of the record
\* with the token's hash, which each call sets to the time of the call.
C23_RevokeIdempotentButStamp ==
  [][/\ C23_RevokeOnce
     /\ RevokedAgain =>
          \A i \in Ids(refreshTokens) :
            /\ SameButStamp(refreshTokens'[i], refreshTokens[i])
            /\ refreshTokens'[i].updatedAt =
                 IF refreshTokens[i].tokenHash = hashRefreshToken(req'["p1"].token)
                   THEN now ELSE refreshTokens[i].updatedAt]_vars

\* the second of two calls for a token that has a record has returned, later
\* than the first
C23_Witness ==
  /\ req["p1"].op = "revoke"
  /\ req["p1"].count >= 2
  /\ req["p1"].isValid
  /\ \E i \in Ids(refreshTokens) :
       /\ refreshTokens[i].tokenHash = hashRefreshToken(req["p1"].token)
       /\ refreshTokens[i].isRevoked
       /\ refreshTokens[i].updatedAt = now
       /\ now > refreshTokens[i].createdAt + DaysPerTick

\* C24: cleanupExpiredTokens revokes exactly the records that are non-revoked
\* and whose expiry has passed, returns their number, and leaves every
\* unexpired record and every already revoked record unchanged.
C24_SweepStep ==
  JustCalled("sweep") =>
    LET due == {i \in Ids(refreshTokens) :
                  ~refreshTokens[i].isRevoked /\ refreshTokens[i].expiresAt < now}
    IN /\ Len(refreshTokens') = Len(refreshTokens)
       /\ \A i \in Ids(refreshTokens) :
            IF i \in due
              THEN refreshTokens'[i] = [refreshTokens[i] EXCEPT !.isRevoked = TRUE,
                                                                !.updatedAt = now]
              ELSE refreshTokens'[i] = refreshTokens[i]
       /\ req'["p1"].count = Cardinality(due)

C24_SweepExact == [][C24_SweepStep]_vars

\* a sweep has revoked a record and has left alone a record revoked before its
\* expiry passed and a record that is still good
C24_Witness ==
  /\ req["p1"].op = "sweep"
  /\ req["p1"].count >= 1
  /\ \E i, j, k \in Ids(refreshTokens) :
       /\ refreshTokens[i].isRevoked /\ refreshTokens[i].updatedAt = now
       /\ refreshTokens[j].isRevoked /\ refreshTokens[j].updatedAt < now
       /\ refreshTokens[j].expiresAt < now
       /\ ~refreshTokens[k].isRevoked /\ refreshTokens[k].expiresAt >= now

\* C27: whatever create, verify, revoke and revokeAll calls and clock advances
\* are made, and wherever sweeps are inserted among them, every
\* verifyRefreshToken call returns what it returns in the system that never
\* sweeps, and the session cap evicts the same unexpired tokens.
C27_SweepNotCritical ==
  /\ req["p1"].op = "verify" =>
       req["p1"].isValid = req["p2"].isValid /\ req["p1"].userId = req["p2"].userId
  /\ req["p1"].op = "create" => req["p1"].toRevoke = req["p2"].toRevoke
  /\ \A i \in Ids(refreshTokens) :
       refreshTokens[i].isRevoked # unswept[i].isRevoked =>
         refreshTokens[i].isRevoked /\ refreshTokens[i].expiresAt < now

\* a token the sweep has revoked, and only the sweep, is verified
C27_Witness ==
  /\ req["p1"].op = "verify"
  /\ \E i \in Ids(refreshTokens) :
       /\ refreshTokens[i].tokenHash = hashRefreshToken(req["p1"].token)
       /\ refreshTokens[i].isRevoked
       /\ ~unswept[i].isRevoked

\* C25: validatePassword rejects "password123" and accepts "Tr0ub4dor&3xyz!"
\* (isValid = true with an empty error list).
C25_PasswordExamples ==
  pw.pc = "validated" =>
    /\ pw.password = Password123 => ~pw.result.isValid
    /\ pw.password = Troubador => pw.result.isValid /\ pw.result.errors = <<>>

\* requests that have reached the limiters so far, of any client to any path
Arrived == MaxAppReqs - rlLeft

\* C26: a login attempt is rejected by rate limiting only if its client made
\* more than LOGIN_MAX login attempts in the login window or more than API_MAX
\* requests in the API window; so no login is rejected before more than
\* LOGIN_MAX requests have arrived at all.
C26_IndependentLimiters ==
  \A p \in Procs :
    http[p].pc # "idle" /\ http[p].path = "/api/auth/login" /\ http[p].intended = 429 =>
      Arrived > LOGIN_MAX

\* C28: whatever the state of the refresh-token store (after logout, logout
\* of all devices, eviction by the session cap or the sweep), a protected
\* request with a correctly signed, unexpired access token of an active user
\* is admitted by authMiddleware.
C28_NotRevocable ==
  az.pc = "done" /\ az.sawValid /\ az.sawActive => az.ran /\ az.status # 401

\* a request was served with the access token of a user all of whose refresh
\* tokens have been revoked
C28_Witness ==
  /\ az.pc = "done"
  /\ az.ran
  /\ az.status = 200
  /\ \E x \in az.user :
       /\ \E i \in Ids(refreshTokens) : refreshTokens[i].userId = x.id
       /\ SelectUserActive(refreshTokens, x.id) = {}

\* C29: the expiresIn that POST /refresh returns is the validity of the access
\* token in the same response: the token is accepted until issue time plus
\* expiresIn, and no longer.
C29_ExpiresInIsLifetime ==
  \A i \in seen :
    i.kind = "issued" /\ i.via = "refresh" =>
      i.expiresIn = (accessTokens[i.tok].exp - i.at) * HoursPerDay

\* C30: a login whose email is unknown, whose account is inactive or whose
\* password is wrong takes one step, which leaves the refresh token store as it
\* was and ends with 401 and no token; so every step of a login that writes the
\* store, and every token a login returns, belongs to a login with an active
\* account's right password.
C30_Step ==
  \A p \in Procs :
    req'[p] # req[p] /\ req'[p].op = "login" /\ ~req'[p].sawCreds =>
      /\ refreshTokens' = refreshTokens
      /\ req'[p].pc = "done"
      /\ req'[p].status = 401
      /\ req'[p].token = 0

C30_FailedLoginWritesNothing == [][C30_Step]_vars

\* a login with a known, active account and a wrong password has finished
C30_Witness ==
  \E p \in Procs :
    /\ req[p].op = "login" /\ req[p].pc = "done" /\ req[p].status = 401
    /\ req[p].userId # NoUser /\ users[req[p].userId].isActive
    /\ ~req[p].sawCreds

====
